---- MODULE Spec2Model ----
(***************************************************************************)
(* Model of the product-search service: the in-memory catalog with its     *)
(* three inverted indexes (ProductService), the query-understanding        *)
(* pipeline (QueryProcessor), candidate matching and filtering             *)
(* (SearchService) and the scoring/sort algorithm (RankingEngine).         *)
(*                                                                         *)
(* Text is modelled as TLA+ strings handled character by character, so     *)
(* that lower-casing, splitting, substring tests, the regular expressions  *)
(* and the edit distance are computed as the JavaScript computes them.     *)
(* Scores are exact rationals scaled by ScoreScale (IEEE rounding of the   *)
(* JavaScript doubles is not modelled).                                    *)
(***************************************************************************)
EXTENDS Integers, Sequences, FiniteSets, TLC

(***************************************************************************)
(* Strings                                                                 *)
(***************************************************************************)
Char(s, i) == SubSeq(s, i, i)

CharsOf(s) == {Char(s, i) : i \in 1..Len(s)}

DigitSet == CharsOf("0123456789")

\* the lower-case letter of each upper-case letter
LowerOf ==
    LET upper == "ABCDEFGHIJKLMNOPQRSTUVWXYZ"
        lower == "abcdefghijklmnopqrstuvwxyz"
    IN [c \in CharsOf(upper) |-> Char(lower, CHOOSE i \in 1..26 : Char(upper, i) = c)]

\* \w of a JavaScript regular expression: [A-Za-z0-9_]
WordSet == DOMAIN LowerOf \cup {LowerOf[c] : c \in DOMAIN LowerOf} \cup DigitSet \cup {"_"}

IsDigit(c) == c \in DigitSet
IsWordChar(c) == c \in WordSet
\* \s of a JavaScript regular expression, over the characters the inputs use
IsSpace(c) == c = " "

\* String.prototype.toLowerCase
ToLower(s) ==
    LET RECURSIVE From(_)
        From(i) ==
            IF i > Len(s) THEN ""
            ELSE (IF Char(s, i) \in DOMAIN LowerOf THEN LowerOf[Char(s, i)] ELSE Char(s, i))
                 \o From(i + 1)
    IN From(1)

\* String.prototype.includes
Includes(s, sub) ==
    \E i \in 0..(Len(s) - Len(sub)) : SubSeq(s, i + 1, i + Len(sub)) = sub

\* String.prototype.startsWith at a position (1-based)
MatchAt(s, i, sub) ==
    /\ i + Len(sub) - 1 <= Len(s)
    /\ SubSeq(s, i, i + Len(sub) - 1) = sub

\* a trim that strips nothing
TrimNothing(s) == s

\* String.prototype.trim
Trim(s) ==
    LET kept == {i \in 1..Len(s) : ~IsSpace(Char(s, i))} IN
    IF kept = {} THEN ""
    ELSE SubSeq(s, CHOOSE i \in kept : \A k \in kept : i <= k,
                   CHOOSE i \in kept : \A k \in kept : i >= k)

\* /^\d+$/.test(s)
AllDigits(s) == Len(s) > 0 /\ \A i \in 1..Len(s) : IsDigit(Char(s, i))

\* String.prototype.split(/\s+/): the pieces between maximal runs of white
\* space; a leading or trailing run yields an empty first or last piece, and
\* the empty string yields one empty piece.
SplitWs(s) ==
    LET RECURSIVE From(_, _, _)
        From(i, cur, acc) ==
            IF i > Len(s) THEN Append(acc, cur)
            ELSE IF IsSpace(Char(s, i))
                 THEN IF i > 1 /\ IsSpace(Char(s, i - 1))
                      THEN From(i + 1, cur, acc)
                      ELSE From(i + 1, "", Append(acc, cur))
                 ELSE From(i + 1, cur \o Char(s, i), acc)
    IN From(1, "", <<>>)

\* Array.prototype.join(sep)
Join(parts, sep) ==
    LET RECURSIVE From(_)
        From(i) ==
            IF i > Len(parts) THEN ""
            ELSE IF i = Len(parts) THEN parts[i]
            ELSE parts[i] \o sep \o From(i + 1)
    IN From(1)

Range(seq) == {seq[i] : i \in 1..Len(seq)}

\* new Set(seq): insertion order, duplicates dropped
Dedup(seq) ==
    LET RECURSIVE From(_, _)
        From(i, acc) ==
            IF i > Len(seq) THEN acc
            ELSE IF seq[i] \in Range(acc) THEN From(i + 1, acc)
            ELSE From(i + 1, Append(acc, seq[i]))
    IN From(1, <<>>)

\* an add that does not look whether the element is there
SetAddAgain(seq, x) == Append(seq, x)

\* Set.prototype.add on an insertion-ordered set
SetAdd(seq, x) == IF x \in Range(seq) THEN seq ELSE Append(seq, x)

\* Set.prototype.delete on an insertion-ordered set
SetDelete(seq, x) == SelectSeq(seq, LAMBDA y : y # x)

Min2(a, b) == IF a < b THEN a ELSE b
Max2(a, b) == IF a > b THEN a ELSE b
Abs(a) == IF a < 0 THEN -a ELSE a

(***************************************************************************)
(* leven(a, b): the Levenshtein distance, by rows of the dynamic program   *)
(***************************************************************************)
Leven(a, b) ==
    LET RECURSIVE Row(_, _, _)
        \* the row of the table for the first i characters of a, left to right
        Row(prev, i, row) ==
            LET j == Len(row) IN
            IF j > Len(b) THEN row
            ELSE LET cost == IF Char(a, i) = Char(b, j) THEN 0 ELSE 1
                     v == Min2(Min2(prev[j + 1] + 1, row[j] + 1), prev[j] + cost)
                 IN Row(prev, i, Append(row, v))
        RECURSIVE Rows(_, _)
        Rows(prev, i) ==
            IF i > Len(a) THEN prev[Len(b) + 1]
            ELSE Rows(Row(prev, i, <<i>>), i + 1)
    IN Rows([j \in 1..(Len(b) + 1) |-> j - 1], 1)

\* leven(a, b) <= t; the distance is at least the difference of the lengths,
\* so the table is only built when that difference is at most t
LevenWithin(a, b, t) == Abs(Len(a) - Len(b)) <= t /\ Leven(a, b) <= t

(***************************************************************************)
(* Constants of the service (utils/constants.js)                           *)
(***************************************************************************)
\* HINGLISH_MAPPINGS, in key order
HINGLISH_MAPPINGS ==
    << <<"sasta", "cheap">>, <<"sastha", "cheap">>, <<"wala", "with">>,
       <<"mein", "in">>, <<"ka", "of">>, <<"ki", "of">>, <<"ke", "of">>,
       <<"se", "from">>, <<"par", "on">> >>

\* SPELLING_CORRECTIONS, in key order
SPELLING_CORRECTIONS ==
    << <<"ifone", "iphone">>, <<"ipone", "iphone">>, <<"sastha", "sasta">>,
       <<"samsung", "samsung">>, <<"oneplus", "oneplus">> >>

MAX_RESULTS == 100
DEFAULT_RESULTS == 50
FUZZY_THRESHOLD == 2
MIN_STOCK_FOR_BOOST == 1

(***************************************************************************)
(* QueryProcessor                                                          *)
(***************************************************************************)
\* this.brands
Brands ==
    <<"iphone", "samsung", "oneplus", "xiaomi", "redmi", "oppo", "vivo",
      "realme", "nokia">>

\* this.productTerms
ProductTerms ==
    <<"phone", "mobile", "laptop", "headphone", "charger", "cover", "case",
      "screen", "guard">>

\* a character position of s holds a word character (positions outside s do not)
WordAt(s, i) == i >= 1 /\ i <= Len(s) /\ IsWordChar(Char(s, i))

\* \b between positions i and i + 1 of s
BoundaryAfter(s, i) == WordAt(s, i) # WordAt(s, i + 1)

\* s.replace(new RegExp(`\\b${w}\\b`, "gi"), r), on lower-case text
ReplaceWord(s, w, r) ==
    LET RECURSIVE From(_)
        From(i) ==
            IF i > Len(s) THEN ""
            ELSE IF /\ MatchAt(s, i, w)
                    /\ BoundaryAfter(s, i - 1)
                    /\ BoundaryAfter(s, i + Len(w) - 1)
                 THEN r \o From(i + Len(w))
                 ELSE Char(s, i) \o From(i + 1)
    IN From(1)

\* Object.keys(table).forEach(k => text = text.replace(/\bk\b/gi, table[k]))
RECURSIVE ReplaceAll(_, _, _)
ReplaceAll(s, table, i) ==
    IF i > Len(table) THEN s
    ELSE ReplaceAll(ReplaceWord(s, table[i][1], table[i][2]), table, i + 1)

\* the first term of vocab within edit distance 1..2 of word, "" when none
RECURSIVE FirstClose(_, _, _)
FirstClose(word, vocab, i) ==
    IF i > Len(vocab) THEN ""
    ELSE LET distance == Leven(word, vocab[i]) IN
         IF distance <= 2 /\ distance > 0 /\ Len(word) > 3
         THEN vocab[i]
         ELSE FirstClose(word, vocab, i + 1)

\* the callback of words.map in correctSpelling
CorrectWord(word) ==
    LET brand == FirstClose(word, Brands, 1) IN
    IF brand # "" THEN brand
    ELSE LET term == FirstClose(word, ProductTerms, 1) IN
         IF term # "" THEN term ELSE word

correctSpelling(query) ==
    LET corrected == ReplaceAll(ToLower(query), SPELLING_CORRECTIONS, 1)
        words == SplitWs(corrected)
    IN Join([i \in 1..Len(words) |-> CorrectWord(words[i])], " ")

\* a translation that knows no Hinglish word
translateNothing(query) == ToLower(query)

translateHinglish(query) == ReplaceAll(ToLower(query), HINGLISH_MAPPINGS, 1)

\* query.replace(/[^\w\s]/g, " ")
StripSpecial(s) ==
    LET RECURSIVE From(_)
        From(i) ==
            IF i > Len(s) THEN ""
            ELSE (IF IsWordChar(Char(s, i)) \/ IsSpace(Char(s, i)) THEN Char(s, i) ELSE " ")
                 \o From(i + 1)
    IN From(1)

\* s.replace(/\s+/g, " ")
CollapseWs(s) ==
    LET RECURSIVE From(_)
        From(i) ==
            IF i > Len(s) THEN ""
            ELSE IF IsSpace(Char(s, i))
                 THEN (IF i > 1 /\ IsSpace(Char(s, i - 1)) THEN "" ELSE " ") \o From(i + 1)
                 ELSE Char(s, i) \o From(i + 1)
    IN From(1)

normalizeQuery(query) ==
    IF query = "" THEN "" ELSE Trim(CollapseWs(ToLower(StripSpecial(query))))

(***************************************************************************)
(* Regular-expression pieces used by the extractors.  A position is 1-based;*)
(* an end position is the first position after the match; 0 means no match. *)
(***************************************************************************)
RECURSIVE SkipSpaces(_, _)
\* \s* from position i
SkipSpaces(s, i) ==
    IF i <= Len(s) /\ IsSpace(Char(s, i)) THEN SkipSpaces(s, i + 1) ELSE i

RECURSIVE SkipDigits(_, _)
\* \d* from position i
SkipDigits(s, i) ==
    IF i <= Len(s) /\ IsDigit(Char(s, i)) THEN SkipDigits(s, i + 1) ELSE i

\* (a|b|...) at position i: the end of the first alternative that matches
RECURSIVE AltEnd(_, _, _, _)
AltEnd(s, i, alts, n) ==
    IF n > Len(alts) THEN 0
    ELSE IF MatchAt(s, i, alts[n]) THEN i + Len(alts[n])
    ELSE AltEnd(s, i, alts, n + 1)

\* (a|b|...)? at position i
OptAltEnd(s, i, alts) ==
    LET e == AltEnd(s, i, alts, 1) IN IF e = 0 THEN i ELSE e

\* rupees?|rs\.?  (each alternative with its optional last character first)
RupeeAlts == <<"rupees", "rupee", "rs.", "rs">>

\* (\d+)\s*(unit alternatives)\s*(rupees?|rs\.?)?
UnitPatternEnd(s, i, units) ==
    LET d == SkipDigits(s, i)
        u == AltEnd(s, SkipSpaces(s, d), units, 1)
    IN IF d = i \/ u = 0 THEN 0
       ELSE OptAltEnd(s, SkipSpaces(s, u), RupeeAlts)

\* (\d+)\s*(rupees?|rs\.?)
RupeePatternEnd(s, i) ==
    LET d == SkipDigits(s, i) IN
    IF d = i THEN 0 ELSE AltEnd(s, SkipSpaces(s, d), RupeeAlts, 1)

\* word\s*(\d+)\s*(k|thousand)?
CeilingPatternEnd(s, i, word) ==
    IF ~MatchAt(s, i, word) THEN 0
    ELSE LET b == SkipSpaces(s, i + Len(word))
             d == SkipDigits(s, b)
         IN IF d = b THEN 0
            ELSE OptAltEnd(s, SkipSpaces(s, d), <<"k", "thousand">>)

\* pricePatterns[p], matched at position i of the lower-cased text
PricePatternEnd(p, s, i) ==
    CASE p = 1 -> UnitPatternEnd(s, i, <<"k", "thousand", "thousands">>)
      [] p = 2 -> UnitPatternEnd(s, i, <<"lakh", "lac">>)
      [] p = 3 -> RupeePatternEnd(s, i)
      [] p = 4 -> CeilingPatternEnd(s, i, "under")
      [] p = 5 -> CeilingPatternEnd(s, i, "below")
      [] p = 6 -> CeilingPatternEnd(s, i, "upto")
      [] p = 7 -> CeilingPatternEnd(s, i, "max")

\* query.match(pattern) of a global pattern: the matched texts, left to right
RECURSIVE PriceMatches(_, _, _)
PriceMatches(p, s, i) ==
    IF i > Len(s) THEN <<>>
    ELSE LET e == PricePatternEnd(p, ToLower(s), i) IN
         IF e = 0 THEN PriceMatches(p, s, i + 1)
         ELSE <<SubSeq(s, i, e - 1)>> \o PriceMatches(p, s, e)


RECURSIVE ParseDigits(_, _, _)
ParseDigits(s, i, acc) ==
    IF i > Len(s) \/ ~IsDigit(Char(s, i)) THEN acc
    ELSE ParseDigits(s, i + 1,
                     10 * acc + (CHOOSE k \in 1..10 : Char("0123456789", k) = Char(s, i)) - 1)


\* the number Infinity: what parseInt returns for a figure beyond the largest
\* double (1.8e308), and what stays Infinity when multiplied
Infinity == 2147483647

\* the value one match assigns to maxPrice; value is
\* parseInt(match.match(/(\d+)/)[1]), Infinity for a figure of 310 digits or more
PriceOfMatch(match) ==
    LET digits == {i \in 1..Len(match) : IsDigit(Char(match, i))}
        first == CHOOSE i \in digits : \A k \in digits : i <= k
        value == IF SkipDigits(match, first) - first >= 310 /\ Char(match, first) # "0"
                 THEN Infinity
                 ELSE ParseDigits(match, first, 0)
        lower == ToLower(match)
    IN IF value = Infinity THEN Infinity
       ELSE IF Includes(lower, "k") \/ Includes(lower, "thousand") THEN value * 1000
       ELSE IF Includes(lower, "lakh") \/ Includes(lower, "lac") THEN value * 100000
       ELSE value

\* maxPrice is null
NoPrice == -1

\* maxPrice after pricePatterns[p] and the patterns that follow it (there are
\* 7): every match of a pattern assigns maxPrice, so the last match stands
RECURSIVE PriceAfterPatterns(_, _, _)
PriceAfterPatterns(query, p, maxPrice) ==
    IF p > 7 THEN maxPrice
    ELSE LET matches == PriceMatches(p, query, 1) IN
         PriceAfterPatterns(query, p + 1,
                            IF Len(matches) = 0 THEN maxPrice
                            ELSE PriceOfMatch(matches[Len(matches)]))

extractPriceRange(query) ==
    [minPrice |-> NoPrice, maxPrice |-> PriceAfterPatterns(query, 1, NoPrice)]

\* the colors of extractColor, in list order
QueryColors ==
    <<"red", "blue", "green", "yellow", "black", "white", "silver", "gold",
      "pink", "purple", "orange", "grey", "gray", "brown", "starlight",
      "cosmic orange", "deep blue", "sky blue", "space black", "space gray">>

\* the first entry of list that is a substring of text, "" when none
RECURSIVE FirstIncluded(_, _, _)
FirstIncluded(text, list, i) ==
    IF i > Len(list) THEN ""
    ELSE IF Includes(text, list[i]) THEN list[i]
    ELSE FirstIncluded(text, list, i + 1)

\* "" stands for null
extractColor(query) == FirstIncluded(ToLower(query), QueryColors, 1)

\* /iphone\s*(\d+)\s*(pro|max|plus|air)?/ at position i
IphonePatternEnd(s, i) ==
    IF ~MatchAt(s, i, "iphone") THEN 0
    ELSE LET b == SkipSpaces(s, i + 6)
             d == SkipDigits(s, b)
         IN IF d = b THEN 0
            ELSE OptAltEnd(s, SkipSpaces(s, d), <<"pro", "max", "plus", "air">>)

\* /galaxy\s+s(\d+)/ at position i
GalaxyPatternEnd(s, i) ==
    IF ~MatchAt(s, i, "galaxy") THEN 0
    ELSE LET b == SkipSpaces(s, i + 6) IN
         IF b = i + 6 \/ ~MatchAt(s, b, "s") THEN 0
         ELSE LET d == SkipDigits(s, b + 1) IN IF d = b + 1 THEN 0 ELSE d

\* /\b(\d+)\b/ at position i
NumberPatternEnd(s, i) ==
    LET d == SkipDigits(s, i) IN
    IF d = i \/ WordAt(s, i - 1) \/ WordAt(s, d) THEN 0 ELSE d

ModelPatternEnd(p, s, i) ==
    CASE p = 1 -> IphonePatternEnd(s, i)
      [] p = 2 -> GalaxyPatternEnd(s, i)
      [] p = 3 -> NumberPatternEnd(s, i)

\* query.match(pattern)[0] as <<start, end>>, <<0, 0>> when there is no match
RECURSIVE FirstModelMatch(_, _, _)
FirstModelMatch(p, s, i) ==
    IF i > Len(s) THEN <<0, 0>>
    ELSE LET e == ModelPatternEnd(p, ToLower(s), i) IN
         IF e = 0 THEN FirstModelMatch(p, s, i + 1) ELSE <<i, e>>

\* "" stands for null
extractModel(query) ==
    LET iphoneMatch == FirstModelMatch(1, query, 1)
        samsungMatch == FirstModelMatch(2, query, 1)
        numberMatch == FirstModelMatch(3, query, 1)
    IN IF iphoneMatch[1] # 0
       THEN Trim(SubSeq(query, iphoneMatch[1], iphoneMatch[2] - 1))
       ELSE IF samsungMatch[1] # 0
       THEN Trim(SubSeq(query, samsungMatch[1], samsungMatch[2] - 1))
       ELSE IF numberMatch[1] # 0
       THEN SubSeq(query, numberMatch[1], numberMatch[2] - 1)
       ELSE ""

\* the brands of extractBrand, in list order
QueryBrands ==
    <<"iphone", "apple", "samsung", "oneplus", "xiaomi", "redmi", "oppo",
      "vivo", "realme", "nokia">>

\* "" stands for null
extractBrand(query) ==
    LET brand == FirstIncluded(ToLower(query), QueryBrands, 1) IN
    IF brand = "iphone" THEN "apple" ELSE brand

\* filterKeywords of extractIntent
FilterKeywords ==
    {"latest", "new", "cheap", "sasta", "best", "top", "red", "blue", "black",
     "white", "color", "rupees", "rs", "k", "thousand", "lakh", "under",
     "below", "upto", "max"}

\* intent.sortBy after the three keyword groups, evaluated in source order
SortByOf(lowerQuery) ==
    LET s1 == IF \/ Includes(lowerQuery, "latest")
                 \/ Includes(lowerQuery, "new")
                 \/ Includes(lowerQuery, "newest")
              THEN "latest" ELSE "none"
        s2 == IF \/ Includes(lowerQuery, "cheap")
                 \/ Includes(lowerQuery, "sasta")
                 \/ Includes(lowerQuery, "sastha")
                 \/ Includes(lowerQuery, "affordable")
                 \/ Includes(lowerQuery, "budget")
              THEN "price_asc" ELSE s1
    IN IF Includes(lowerQuery, "best") \/ Includes(lowerQuery, "top")
       THEN "rating" ELSE s2

\* The intent: sortBy "none" is null; a filterBy entry that is "" is absent;
\* hasPriceRange tells whether filterBy.priceRange is present.
extractIntent(query) ==
    LET priceRange == extractPriceRange(query) IN
    [sortBy |-> SortByOf(ToLower(query)),
     color |-> extractColor(query),
     model |-> extractModel(query),
     brand |-> extractBrand(query),
     hasPriceRange |-> priceRange.minPrice > 0 \/ priceRange.maxPrice > 0,
     minPrice |-> priceRange.minPrice,
     maxPrice |-> priceRange.maxPrice,
     searchTerms |-> SelectSeq(SplitWs(ToLower(query)),
                            LAMBDA word : Len(word) > 2 /\ word \notin FilterKeywords)]

\* processQuery for a non-empty query
processQuery(query) ==
    LET normalized == normalizeQuery(query)
        translated == translateHinglish(normalized)
        corrected == correctSpelling(translated)
    IN [original |-> query,
        normalized |-> normalized,
        corrected |-> corrected,
        intent |-> extractIntent(corrected)]

(***************************************************************************)
(* Product (models/Product.js).  A metadata object is the sequence of its  *)
(* entries in insertion order: <<key, value>> holds a string value, and    *)
(* <<key, text, type>> a truthy value of another type (typeof), written as *)
(* text.                                                                   *)
(* rating is in tenths, returnRate in percent, discountPercentage in       *)
(* hundredths of a percent (rounded down).                                 *)
(***************************************************************************)
\* floor(a * b / c) for a, b >= 0 and c > 0, without forming the product a * b
MulDiv(a, b, c) ==
    LET RECURSIVE QuotRem(_)
        \* <<quotient, remainder>> of a * n by c
        QuotRem(n) ==
            IF n = 0 THEN <<0, 0>>
            ELSE LET h == QuotRem(n \div 2)
                     r == 2 * h[2] + (IF n % 2 = 1 THEN a % c ELSE 0)
                 IN <<2 * h[1] + (IF n % 2 = 1 THEN a \div c ELSE 0) + (r \div c), r % c>>
    IN QuotRem(b)[1]


\* metadata[key], "" when the key is absent (undefined)
MetaGet(metadata, key) ==
    IF \E i \in 1..Len(metadata) : metadata[i][1] = key
    THEN metadata[CHOOSE i \in 1..Len(metadata) : metadata[i][1] = key][2]
    ELSE ""

\* Object.values(metadata).filter(v => typeof v === "string")
MetaValues(metadata) ==
    LET strings == SelectSeq(metadata, LAMBDA entry : Len(entry) = 2) IN
    [i \in 1..Len(strings) |-> strings[i][2]]

\* (metadata[key] || "").toLowerCase() raises a TypeError: the value is truthy
\* and is no string, so it has no toLowerCase
LowerCaseThrows(metadata, key) ==
    \E i \in 1..Len(metadata) : metadata[i][1] = key /\ Len(metadata[i]) = 3

\* { ...target, [entry key]: entry value }
MetaSet(metadata, entry) ==
    IF \E i \in 1..Len(metadata) : metadata[i][1] = entry[1]
    THEN [i \in 1..Len(metadata) |->
            IF metadata[i][1] = entry[1] THEN entry ELSE metadata[i]]
    ELSE Append(metadata, entry)

\* { ...old, ...new }
RECURSIVE MergeMetadata(_, _, _)
MergeMetadata(old, new, i) ==
    IF i > Len(new) THEN old
    ELSE MergeMetadata(MetaSet(old, new[i]), new, i + 1)

extractKeywords(text) ==
    Dedup(SelectSeq(SplitWs(StripSpecial(text)),
                 LAMBDA word : Len(word) > 2 \/ AllDigits(word)))

\* the searchText that updateSearchText assigns
SearchTextOf(product) ==
    ToLower(Join(<<product.title, product.description, product.brand,
                   product.category>> \o MetaValues(product.metadata), " "))

updateSearchText(product) ==
    LET text == SearchTextOf(product) IN
    [product EXCEPT !.searchText = text, !.searchKeywords = extractKeywords(text)]

\* new Product(data), data.productId already assigned
NewProduct(data) ==
    updateSearchText(
      [productId |-> data.productId,
       title |-> data.title,
       description |-> data.description,
       brand |-> IF data.brand = "" THEN "unknown" ELSE data.brand,
       category |-> IF data.category = "" THEN "mobile" ELSE data.category,
       price |-> data.price,
       mrp |-> IF data.mrp = 0 THEN data.price ELSE data.mrp,
       rating |-> data.rating,
       stock |-> data.stock,
       metadata |-> data.metadata,
       unitsSold |-> data.unitsSold,
       returnRate |-> data.returnRate,
       reviewCount |-> data.reviewCount,
       complaintCount |-> data.complaintCount,
       discountPercentage |->
           LET mrp == IF data.mrp = 0 THEN data.price ELSE data.mrp IN
           IF mrp > 0 /\ data.price < mrp
           THEN MulDiv(mrp - data.price, 10000, mrp)
           ELSE data.discountPercentage,
       isLatest |-> data.isLatest,
       searchKeywords |-> <<>>,
       searchText |-> ""])

(***************************************************************************)
(* ProductService: the catalog.  A Map is a function on its keys; the Map  *)
(* of products also keeps its insertion order (order); a bucket of an      *)
(* index is an insertion-ordered Set of ids.                               *)
(***************************************************************************)
VARIABLES products, order, categoryIndex, brandIndex, keywordIndex,
          nextProductId, dataFile, last

catalog == <<products, order, categoryIndex, brandIndex, keywordIndex,
             nextProductId, dataFile>>
vars == <<products, order, categoryIndex, brandIndex, keywordIndex,
          nextProductId, dataFile, last>>

EmptyMap == [k \in {} |-> <<>>]

MapSet(map, key, value) ==
    [k \in DOMAIN map \cup {key} |-> IF k = key THEN value ELSE map[k]]

MapDelete(map, key) == [k \in DOMAIN map \ {key} |-> map[k]]

\* if (!index.has(key)) index.set(key, new Set()); index.get(key).add(id)
IndexAdd(index, key, id) ==
    MapSet(index, key, SetAdd(IF key \in DOMAIN index THEN index[key] ELSE <<>>, id))

\* a removal that keeps the key of a bucket it has emptied
IndexRemoveKeepingKey(index, key, id) ==
    IF key \notin DOMAIN index THEN index
    ELSE MapSet(index, key, SetDelete(index[key], id))

\* if (index.has(key)) { delete id; if the bucket is empty, delete the key }
IndexRemove(index, key, id) ==
    IF key \notin DOMAIN index THEN index
    ELSE LET bucket == SetDelete(index[key], id) IN
         IF Len(bucket) = 0 THEN MapDelete(index, key) ELSE MapSet(index, key, bucket)

\* the three indexes as one record, for the helpers that update all of them
Indexes(c, b, k) == [category |-> c, brand |-> b, keyword |-> k]

updateIndexes(idx, product) ==
    Indexes(IndexAdd(idx.category, ToLower(product.category), product.productId),
            IndexAdd(idx.brand, ToLower(product.brand), product.productId),
            LET RECURSIVE AddFrom(_, _)
                \* product.searchKeywords.forEach(keyword => add)
                AddFrom(index, i) ==
                    IF i > Len(product.searchKeywords) THEN index
                    ELSE AddFrom(IndexAdd(index, product.searchKeywords[i],
                                          product.productId), i + 1)
            IN AddFrom(idx.keyword, 1))

removeFromIndexes(idx, product) ==
    Indexes(IndexRemove(idx.category, ToLower(product.category), product.productId),
            IndexRemove(idx.brand, ToLower(product.brand), product.productId),
            LET RECURSIVE RemoveFrom(_, _)
                \* product.searchKeywords.forEach(keyword => delete)
                RemoveFrom(index, i) ==
                    IF i > Len(product.searchKeywords) THEN index
                    ELSE RemoveFrom(IndexRemove(index, product.searchKeywords[i],
                                                product.productId), i + 1)
            IN RemoveFrom(idx.keyword, 1))

productToRawFormat(product) ==
    [productId |-> product.productId,
     title |-> product.title,
     description |-> product.description,
     brand |-> product.brand,
     category |-> product.category,
     price |-> product.price,
     rating |-> product.rating,
     source |-> IF MetaGet(product.metadata, "source") = "" THEN "amazon"
                ELSE MetaGet(product.metadata, "source"),
     stock |-> product.stock]

\* the content saveProductsToFile writes
FileOf(prods) ==
    LET RECURSIVE SortedIds(_)
        \* .sort((a, b) => a.productId - b.productId): ids in ascending order
        SortedIds(set) ==
            IF set = {} THEN <<>>
            ELSE LET m == CHOOSE i \in set : \A j \in set : i <= j
                 IN <<m>> \o SortedIds(set \ {m})
        ids == SortedIds(DOMAIN prods)
    IN
    [i \in 1..Len(ids) |-> productToRawFormat(prods[ids[i]])]

getProduct(productId) == productId \in DOMAIN products

\* getAllProductsUnpaginated: the products in the Map's insertion order
getAllProductsUnpaginated == [i \in 1..Len(order) |-> products[order[i]]]

\* the ids of a bucket whose product exists (.filter(p => p !== undefined))
LiveIds(index, key) ==
    IF key \in DOMAIN index
    THEN SelectSeq(index[key], LAMBDA id : id \in DOMAIN products)
    ELSE <<>>

getProductsByCategory(category) == LiveIds(categoryIndex, ToLower(category))
getProductsByBrand(brand) == LiveIds(brandIndex, ToLower(brand))
getProductsByKeyword(keyword) == LiveIds(keywordIndex, ToLower(keyword))

\* seq.forEach(x => set.add(x)) on an insertion-ordered set
RECURSIVE AddAll(_, _, _)
AddAll(set, seq, i) ==
    IF i > Len(seq) THEN set ELSE AddAll(SetAdd(set, seq[i]), seq, i + 1)

\* the ids of the products of every keyword's bucket, in order of discovery
RECURSIVE KeywordUnion(_, _, _)
KeywordUnion(set, keywords, i) ==
    IF i > Len(keywords) THEN set
    ELSE KeywordUnion(AddAll(set, getProductsByKeyword(keywords[i]), 1), keywords, i + 1)

\* searchProductsByText: the ids of the products it returns
searchProductsByText(searchText) ==
    LET keywords == SelectSeq(SplitWs(ToLower(searchText)),
                           LAMBDA k : Len(k) > 2 \/ AllDigits(k))
        first == IF Len(keywords) = 0 THEN <<>> ELSE getProductsByKeyword(keywords[1])
        resultSet == SelectSeq(first, LAMBDA id :
                        \A i \in 2..Len(keywords) :
                            id \in Range(getProductsByKeyword(keywords[i])))
    IN IF Len(keywords) = 0 THEN <<>>
       ELSE IF Len(resultSet) = 0 THEN KeywordUnion(<<>>, keywords, 1)
       ELSE resultSet

(***************************************************************************)
(* SearchService                                                           *)
(***************************************************************************)
\* matching that leaves the short keywords of the query out
MatchKeywordsLong(processedQuery) ==
    SelectSeq(SplitWs(ToLower(processedQuery.corrected)),
           LAMBDA k : Len(k) > 3)

\* the keywords of the corrected query that matching uses
MatchKeywords(processedQuery) ==
    SelectSeq(SplitWs(ToLower(processedQuery.corrected)),
           LAMBDA k : Len(k) > 2 \/ AllDigits(k))

\* the first loop over allProducts: full-query substring, else keyword AND
DirectMatch(product, queryLower, keywords) ==
    \/ Includes(ToLower(product.title), queryLower)
    \/ Includes(ToLower(product.description), queryLower)
    \/ /\ Len(keywords) > 0
       /\ \A i \in 1..Len(keywords) :
              Includes(ToLower(product.searchText), keywords[i])

\* categoryKeywords of findMatchingProducts
CategoryKeywords ==
    <<"phone", "mobile", "laptop", "headphone", "charger", "cover", "case">>

\* the fuzzy fallback's test of one product
HasFuzzyMatch(product, keywords) ==
    LET productWords == SplitWs(ToLower(product.searchText)) IN
    \E i \in 1..Len(keywords) : \E j \in 1..Len(productWords) :
        /\ Len(productWords[j]) > 3
        /\ Len(keywords[i]) > 3
        /\ LevenWithin(productWords[j], keywords[i], FUZZY_THRESHOLD)

\* the product ids of a list of products
IdsOf(prods) == [i \in 1..Len(prods) |-> prods[i].productId]

\* findMatchingProducts: the matches set after each of its stages
MatchStages(query, processedQuery) ==
    LET queryLower == Trim(ToLower(query))
        keywords == MatchKeywords(processedQuery)
        intent == processedQuery.intent
        allProducts == getAllProductsUnpaginated
        m1 == IdsOf(SelectSeq(allProducts, LAMBDA p : DirectMatch(p, queryLower, keywords)))
        m2 == KeywordUnion(m1, keywords, 1)
        m3 == IF intent.brand # ""
              THEN AddAll(m2, getProductsByBrand(intent.brand), 1)
              ELSE m2
        m4 == IF FirstIncluded(queryLower, CategoryKeywords, 1) # ""
              THEN AddAll(m3, getProductsByCategory("mobile"), 1)
              ELSE m3
        m5 == IF Len(m4) = 0 \/ Len(m4) < 10
              THEN AddAll(m4, IdsOf(SelectSeq(allProducts,
                                             LAMBDA p : HasFuzzyMatch(p, keywords))), 1)
              ELSE m4
    IN [direct |-> m1, keyword |-> m2, brand |-> m3, category |-> m4, fuzzy |-> m5]

\* findMatchingProducts: the ids of the products it returns, in order
findMatchingProducts(query, processedQuery) ==
    SelectSeq(MatchStages(query, processedQuery).fuzzy, LAMBDA id : getProduct(id))

\* a price filter that forgets the ceiling
PassesPriceFloorOnly(product, intent) ==
    ~(intent.minPrice > 0 /\ product.price < intent.minPrice)

PassesPrice(product, intent) ==
    ~(intent.maxPrice > 0 /\ product.price > intent.maxPrice)
    /\ ~(intent.minPrice > 0 /\ product.price < intent.minPrice)

PassesColor(product, intent) ==
    Includes(ToLower(MetaGet(product.metadata, "color")), ToLower(intent.color))

\* a model filter that reads metadata.model alone
PassesModelOfMetadata(product, intent) ==
    Includes(ToLower(MetaGet(product.metadata, "model")), ToLower(intent.model))

PassesModel(product, intent) ==
    LET productModel == IF MetaGet(product.metadata, "model") # ""
                        THEN MetaGet(product.metadata, "model")
                        ELSE product.title
    IN Includes(ToLower(productModel), ToLower(intent.model))

PassesBrand(product, intent) == ToLower(product.brand) = ToLower(intent.brand)

\* applyFilters on a sequence of products
applyFilters(prods, processedQuery) ==
    LET intent == processedQuery.intent
        f1 == IF intent.hasPriceRange
              THEN SelectSeq(prods, LAMBDA p : PassesPrice(p, intent)) ELSE prods
        f2 == IF intent.color # ""
              THEN SelectSeq(f1, LAMBDA p : PassesColor(p, intent)) ELSE f1
        f3 == IF intent.model # ""
              THEN SelectSeq(f2, LAMBDA p : PassesModel(p, intent)) ELSE f2
    IN IF intent.brand # ""
       THEN SelectSeq(f3, LAMBDA p : PassesBrand(p, intent)) ELSE f3

\* applyFilters raises: the color filter or the model filter reaches a
\* product whose value is no string.  (rankProducts lower-cases the same
\* values of products that passed these filters, so it raises nothing more.)
applyFiltersThrows(prods, processedQuery) ==
    LET intent == processedQuery.intent
        f1 == IF intent.hasPriceRange
              THEN SelectSeq(prods, LAMBDA p : PassesPrice(p, intent)) ELSE prods
    IN \/ /\ intent.color # ""
          /\ \E i \in 1..Len(f1) : LowerCaseThrows(f1[i].metadata, "color")
       \/ /\ intent.model # ""
          /\ LET f2 == IF intent.color # ""
                       THEN SelectSeq(f1, LAMBDA p : PassesColor(p, intent)) ELSE f1
             IN \E i \in 1..Len(f2) : LowerCaseThrows(f2[i].metadata, "model")

(***************************************************************************)
(* RankingEngine.  A score s of the code is the integer s * ScoreScale;    *)
(* quotients that are not whole numbers of units are rounded down.         *)
(***************************************************************************)
ScoreScale == 30000000

\* the weight w (in thousandths) of the unit score
Weight(thousandths) == (ScoreScale \div 1000) * thousandths

RELEVANCE_WEIGHTS ==
    [TITLE_MATCH |-> Weight(400), DESCRIPTION_MATCH |-> Weight(200),
     METADATA_MATCH |-> Weight(200), EXACT_MATCH_BONUS |-> Weight(200),
     BRAND_MATCH_BONUS |-> Weight(100), MODEL_MATCH_BONUS |-> Weight(100)]

\* keywords.filter(k => text.includes(k)).length
MatchCount(text, keywords) ==
    Cardinality({i \in 1..Len(keywords) : Includes(text, keywords[i])})

calculateFuzzyMatch(product, keywords) ==
    LET productWords == SplitWs(ToLower(product.searchText))
        \* the number of (keyword, product word) pairs at edit distance exactly d
        FuzzyPairs(d) ==
            Cardinality({pair \in (1..Len(keywords)) \X (1..Len(productWords)) :
                            /\ Len(productWords[pair[2]]) > 3
                            /\ Len(keywords[pair[1]]) > 3
                            /\ LevenWithin(productWords[pair[2]], keywords[pair[1]], d)
                            /\ Leven(productWords[pair[2]], keywords[pair[1]]) = d})
        RECURSIVE FuzzySum(_)
        \* the sum over d in 1..n of what the pairs at distance d add to
        \* matchScore: (1 - d / FUZZY_THRESHOLD) / keywords.length each
        FuzzySum(n) ==
            IF n = 0 THEN 0
            ELSE LET each == ((ScoreScale * (FUZZY_THRESHOLD - n)) \div FUZZY_THRESHOLD)
                             \div Len(keywords)
                 IN FuzzySum(n - 1) + (IF each = 0 THEN 0 ELSE each * FuzzyPairs(n))
    IN IF Len(keywords) = 0 THEN 0 ELSE Min2(ScoreScale, FuzzySum(FUZZY_THRESHOLD))

\* weight * (count / total), added only when count > 0
Share(weight, count, total) == IF count > 0 THEN (weight * count) \div total ELSE 0

calculateRelevanceScore(product, query, processedQuery) ==
    LET queryLower == ToLower(query)
        keywords == SelectSeq(SplitWs(ToLower(processedQuery.corrected)),
                           LAMBDA k : Len(k) > 2)
        intent == processedQuery.intent
        titleLower == ToLower(product.title)
        titleHit == Includes(titleLower, queryLower)
        title == IF titleHit THEN RELEVANCE_WEIGHTS.TITLE_MATCH
                 ELSE Share(RELEVANCE_WEIGHTS.TITLE_MATCH,
                            MatchCount(titleLower, keywords), Len(keywords))
        desc == Share(RELEVANCE_WEIGHTS.DESCRIPTION_MATCH,
                      MatchCount(ToLower(product.description), keywords), Len(keywords))
        meta == Share(RELEVANCE_WEIGHTS.METADATA_MATCH,
                      MatchCount(ToLower(Join(MetaValues(product.metadata), " ")), keywords),
                      Len(keywords))
        exact == IF titleHit THEN RELEVANCE_WEIGHTS.EXACT_MATCH_BONUS ELSE 0
        brand == IF intent.brand # "" /\ ToLower(product.brand) = ToLower(intent.brand)
                 THEN RELEVANCE_WEIGHTS.BRAND_MATCH_BONUS ELSE 0
        model == IF intent.model # ""
                    /\ Includes(ToLower(MetaGet(product.metadata, "model")),
                                ToLower(intent.model))
                 THEN RELEVANCE_WEIGHTS.MODEL_MATCH_BONUS ELSE 0
        color == IF intent.color # ""
                    /\ Includes(ToLower(MetaGet(product.metadata, "color")),
                                ToLower(intent.color))
                 THEN RELEVANCE_WEIGHTS.MODEL_MATCH_BONUS ELSE 0
        fuzzy == calculateFuzzyMatch(product, keywords) \div 10
    IN Min2(ScoreScale, title + desc + meta + exact + brand + model + color + fuzzy)

calculateQualityScore(product) ==
    LET ratingScore == (product.rating * Weight(300)) \div 50
        reviewScore == Min2(product.reviewCount, 10000) * (Weight(200) \div 10000)
        returnScore == ((100 - product.returnRate) * Weight(200)) \div 100
        complaintScore == (1000 - Min2(product.complaintCount, 1000)) * (Weight(100) \div 1000)
        stockScore == IF product.stock > 0 THEN Weight(200) ELSE 0
    IN Min2(ScoreScale, ratingScore + reviewScore + returnScore + complaintScore + stockScore)

calculatePopularityScore(product) ==
    LET unitsScore == Min2(product.unitsSold, 100000) * (Weight(400) \div 100000)
        discountScore == Min2(product.discountPercentage, 5000) * (Weight(300) \div 5000)
        latestScore == IF product.isLatest THEN Weight(300) ELSE 0
    IN Min2(ScoreScale, unitsScore + discountScore + latestScore)

\* the score NaN: Infinity / Infinity, and every sum, Math.min and Math.max
\* that NaN enters
NaN == -1

applySpecialBoosts(product, processedQuery) ==
    LET intent == processedQuery.intent
        price == IF intent.hasPriceRange /\ intent.maxPrice > 0
                    /\ product.price <= intent.maxPrice
                 THEN IF intent.maxPrice = Infinity THEN NaN
                      ELSE Min2(Weight(200),
                                MulDiv(intent.maxPrice - product.price, Weight(200),
                                       intent.maxPrice))
                 ELSE 0
        stock == IF product.stock >= MIN_STOCK_FOR_BOOST THEN Weight(100) ELSE 0
        latest == IF intent.sortBy = "latest" /\ product.isLatest THEN Weight(150) ELSE 0
        color == IF intent.color # "" /\ MetaGet(product.metadata, "color") # ""
                    /\ Includes(ToLower(MetaGet(product.metadata, "color")),
                                ToLower(intent.color))
                 THEN Weight(100) ELSE 0
        model == IF intent.model # "" /\ MetaGet(product.metadata, "model") # ""
                    /\ Includes(ToLower(MetaGet(product.metadata, "model")),
                                ToLower(intent.model))
                 THEN Weight(100) ELSE 0
    IN IF price = NaN THEN NaN ELSE price + stock + latest + color + model

calculateRankingScore(product, query, processedQuery) ==
    LET relevanceScore == calculateRelevanceScore(product, query, processedQuery)
        qualityScore == calculateQualityScore(product)
        popularityScore == calculatePopularityScore(product)
        boost == applySpecialBoosts(product, processedQuery)
        finalScore == (relevanceScore * 5) \div 10 + (qualityScore * 3) \div 10
                      + (popularityScore * 2) \div 10 + boost
    IN IF boost = NaN THEN NaN ELSE Min2(ScoreScale, Max2(0, finalScore))

\* 0.01, the width of a near-tie
NearTie == ScoreScale \div 100

\* a comparator that puts the lower score first
CompareAscending(kind, a, b) == a.score - b.score

\* The comparators of rankProducts, on items [product, score]: "score" is the
\* first sort, the others the sort that intent.sortBy selects.  A difference
\* of scores that is NaN is returned as it is, and sort takes it for 0.
Compare(kind, a, b) ==
    IF a.score = NaN \/ b.score = NaN THEN 0
    ELSE IF kind = "score" \/ Abs(b.score - a.score) >= NearTie THEN b.score - a.score
    ELSE CASE kind = "price_asc" -> a.product.price - b.product.price
           [] kind = "latest" ->
                IF b.product.isLatest /\ ~a.product.isLatest THEN 1
                ELSE IF a.product.isLatest /\ ~b.product.isLatest THEN -1
                ELSE b.product.productId - a.product.productId
           [] kind = "rating" -> b.product.rating - a.product.rating

(***************************************************************************)
(* Array.prototype.sort as Node's engine runs it on fewer than 64 elements:*)
(* the first run is found by comparing neighbours (and reversed when it is *)
(* strictly descending), and each later element is placed by a binary      *)
(* search of the sorted prefix.  With a comparator that is not a consistent*)
(* order the result is whatever these steps produce.                       *)
(***************************************************************************)
RECURSIVE RunLength(_, _, _, _)
\* the length of the run that starts at arr[1], given that arr[1..n] is one
RunLength(arr, kind, isDescending, n) ==
    IF n >= Len(arr) THEN n
    ELSE LET ord == Compare(kind, arr[n + 1], arr[n]) IN
         IF (isDescending /\ ord >= 0) \/ (~isDescending /\ ord < 0) THEN n
         ELSE RunLength(arr, kind, isDescending, n + 1)

Reverse(seq) == [i \in 1..Len(seq) |-> seq[Len(seq) + 1 - i]]

RECURSIVE InsertionPoint(_, _, _, _, _)
\* 0-based bounds left and right of the binary search for pivot
InsertionPoint(arr, kind, pivot, left, right) ==
    IF left >= right THEN left
    ELSE LET mid == left + ((right - left) \div 2) IN
         IF Compare(kind, pivot, arr[mid + 1]) < 0
         THEN InsertionPoint(arr, kind, pivot, left, mid)
         ELSE InsertionPoint(arr, kind, pivot, mid + 1, right)

RECURSIVE BinaryInsertionSort(_, _, _)
\* arr[1..start-1] is sorted; place arr[start], arr[start+1], ...
BinaryInsertionSort(arr, kind, start) ==
    IF start > Len(arr) THEN arr
    ELSE LET pivot == arr[start]
             left == InsertionPoint(arr, kind, pivot, 0, start - 1)
             placed == SubSeq(arr, 1, left) \o <<pivot>>
                       \o SubSeq(arr, left + 1, start - 1)
                       \o SubSeq(arr, start + 1, Len(arr))
         IN BinaryInsertionSort(placed, kind, start + 1)

\* arr.sort(comparator of kind)
SortBy(arr, kind) ==
    IF Len(arr) < 2 THEN arr
    ELSE LET isDescending == Compare(kind, arr[2], arr[1]) < 0
             run == RunLength(arr, kind, isDescending, 2)
             made == IF isDescending
                     THEN Reverse(SubSeq(arr, 1, run)) \o SubSeq(arr, run + 1, Len(arr))
                     ELSE arr
         IN BinaryInsertionSort(made, kind, run + 1)

\* rankProducts on a sequence of products: the products in ranked order
rankProducts(prods, query, processedQuery) ==
    LET productsWithScores ==
            [i \in 1..Len(prods) |->
                [product |-> prods[i],
                 score |-> calculateRankingScore(prods[i], query, processedQuery)]]
        byScore == SortBy(productsWithScores, "score")
        sortBy == processedQuery.intent.sortBy
        sorted == IF sortBy = "none" THEN byScore ELSE SortBy(byScore, sortBy)
    IN [i \in 1..Len(sorted) |-> sorted[i].product]

\* products.slice(0, end)
SliceTo(seq, end) ==
    LET e == IF end < 0 THEN Max2(Len(seq) + end, 0) ELSE Min2(end, Len(seq))
    IN SubSeq(seq, 1, e)

(***************************************************************************)
(* Reloading the catalog from the file (dataLoader, metadataExtractor)     *)
(***************************************************************************)
\* metadataExtractor's extractColor(text): the first colour of the list that the text includes,
\* capitalised; "" stands for null
metadataColor(text) ==
    LET colors == <<"Blue", "Red", "Green", "Yellow", "Black", "White", "Silver",
                    "Gold", "Pink", "Purple", "Orange", "Grey", "Gray", "Brown",
                    "Starlight", "Cosmic Orange", "Deep Blue", "Sky Blue",
                    "Space Black", "Space Gray", "Midnight", "Alpine Green",
                    "Sierra Blue", "Graphite", "Pacific Blue">>
        found == SelectSeq(colors, LAMBDA color : Includes(ToLower(text), ToLower(color)))
    IN IF found = <<>> THEN "" ELSE found[1]

\* metadataExtractor's extractModel(text): the first match of the first of the four patterns that
\* matches, trimmed; "" stands for null
metadataModel(text) ==
    LET lower == ToLower(text)
        n == Len(text)
        RECURSIVE SkipWs(_), SkipLower(_)
        SkipWs(i) == IF i <= n /\ IsSpace(Char(text, i)) THEN SkipWs(i + 1) ELSE i
        SkipLower(i) ==
            IF i <= n /\ Char(text, i) \in {LowerOf[c] : c \in DOMAIN LowerOf}
            THEN SkipLower(i + 1) ELSE i
        \* the index after the word of words that stands at i, i when none does
        SkipWord(i, words) ==
            LET hit == SelectSeq(words, LAMBDA w : MatchAt(lower, i, w))
            IN IF hit = <<>> THEN i ELSE i + Len(hit[1])
        \* the index after \d+ at i, 0 when no digit stands at i
        Number(i) == IF SkipDigits(text, i) > i THEN SkipDigits(text, i) ELSE 0
        \* /iPhone\s*(\d+)\s*(Pro|Max|Plus|Air)?\s*(Pro|Max)?/gi matched at i:
        \* the index after the match, 0 when it does not match there
        iphoneEnd(i) ==
            IF MatchAt(lower, i, "iphone") /\ Number(SkipWs(i + 6)) # 0
            THEN SkipWord(SkipWs(SkipWord(SkipWs(Number(SkipWs(i + 6))),
                                          <<"pro", "max", "plus", "air">>)),
                          <<"pro", "max">>)
            ELSE 0
        \* /Galaxy\s+(S|Note|A|M)\s*\d+/gi
        galaxyEnd(i) ==
            IF /\ MatchAt(lower, i, "galaxy")
               /\ SkipWs(i + 6) > i + 6
               /\ SkipWord(SkipWs(i + 6), <<"s", "note", "a", "m">>) > SkipWs(i + 6)
            THEN Number(SkipWs(SkipWord(SkipWs(i + 6), <<"s", "note", "a", "m">>)))
            ELSE 0
        \* /OnePlus\s+(Nord\s*)?\d+/gi
        oneplusEnd(i) ==
            IF MatchAt(lower, i, "oneplus") /\ SkipWs(i + 7) > i + 7
            THEN IF MatchAt(lower, SkipWs(i + 7), "nord")
                      /\ Number(SkipWs(SkipWs(i + 7) + 4)) # 0
                 THEN Number(SkipWs(SkipWs(i + 7) + 4))
                 ELSE Number(SkipWs(i + 7))
            ELSE 0
        \* /([A-Z][a-z]+)\s+(\d+)/g
        genericEnd(i) ==
            IF /\ Char(text, i) \in DOMAIN LowerOf
               /\ SkipLower(i + 1) > i + 1
               /\ SkipWs(SkipLower(i + 1)) > SkipLower(i + 1)
            THEN Number(SkipWs(SkipLower(i + 1)))
            ELSE 0
        ends == <<[i \in 1..n |-> iphoneEnd(i)], [i \in 1..n |-> galaxyEnd(i)],
                  [i \in 1..n |-> oneplusEnd(i)], [i \in 1..n |-> genericEnd(i)]>>
        Matches(p) == \E i \in 1..n : ends[p][i] # 0
        \* text.match(pattern)[0].trim()
        First(p) ==
            LET i == CHOOSE i \in 1..n :
                        ends[p][i] # 0 /\ \A k \in 1..(i - 1) : ends[p][k] = 0
            IN Trim(SubSeq(text, i, ends[p][i] - 1))
    IN IF \E p \in 1..4 : Matches(p)
       THEN First(CHOOSE p \in 1..4 : Matches(p) /\ \A q \in 1..(p - 1) : ~Matches(q))
       ELSE ""

\* extractMetadata(title, description); extractRAM, extractStorage,
\* extractScreenSize and extractBrightness find a number followed by GB, TB,
\* inch, cm or nits, which no text of the model has: they return null and set
\* no key
extractMetadata(title, description) ==
    LET combinedText == title \o " " \o description
        color == metadataColor(combinedText)
        model == metadataModel(combinedText)
    IN (IF color = "" THEN <<>> ELSE << <<"color", color>> >>)
       \o (IF model = "" THEN <<>> ELSE << <<"model", model>> >>)

\* transformProduct(rawProduct): the fields that the record determines (the
\* sales figures are drawn at random); a record of the file has no mrp
transformProduct(rawProduct) ==
    [productId |-> rawProduct.productId,
     title |-> rawProduct.title,
     description |-> rawProduct.description,
     brand |-> IF rawProduct.brand = "" THEN "unknown" ELSE rawProduct.brand,
     category |-> IF rawProduct.category = "" THEN "mobile" ELSE rawProduct.category,
     price |-> rawProduct.price,
     mrp |-> rawProduct.price,
     metadata |-> extractMetadata(rawProduct.title, rawProduct.description)]

\* loadProducts over the file as it stands: the catalog after a restart
Reloaded ==
    [id \in {dataFile[i].productId : i \in 1..Len(dataFile)} |->
        transformProduct(dataFile[CHOOSE i \in 1..Len(dataFile) :
                                      dataFile[i].productId = id])]

(***************************************************************************)
(* Inputs                                                                  *)
(***************************************************************************)
\* the largest product id the catalog is driven to
MaxProductId == 2

\* ranking inputs of a product nobody bought and of a best seller
Poor ==
    [rating |-> 0, stock |-> 0, unitsSold |-> 0, returnRate |-> 100,
     reviewCount |-> 0, complaintCount |-> 1000, discountPercentage |-> 0,
     isLatest |-> FALSE]
Good ==
    [rating |-> 50, stock |-> 25, unitsSold |-> 100000, returnRate |-> 0,
     reviewCount |-> 10000, complaintCount |-> 0, discountPercentage |-> 0,
     isLatest |-> TRUE]

\* the productData of addProduct, before the id is assigned
Data(title, description, brand, category, price, mrp, metadata, q) ==
    [productId |-> 0, title |-> title, description |-> description,
     brand |-> brand, category |-> category, price |-> price, mrp |-> mrp,
     metadata |-> metadata, rating |-> q.rating, stock |-> q.stock,
     unitsSold |-> q.unitsSold, returnRate |-> q.returnRate,
     reviewCount |-> q.reviewCount, complaintCount |-> q.complaintCount,
     discountPercentage |-> q.discountPercentage, isLatest |-> q.isLatest]

ProductData ==
    {Data("Apple iPhone 16", "", "Apple", "mobile", 79900, 0,
          << <<"color", "Black">>, <<"model", "iPhone 16">> >>, Poor),
     Data("Samsung Galaxy S24", "Flagship", "Samsung", "mobile", 30000, 60000,
          << <<"color", "Blue">> >>, Good),
     Data("Nokia 105", "", "", "", 1500, 0, <<>>, Poor),
     Data("Fone Holder", "", "Generic", "accessory", 300, 0, <<>>, Poor)}

\* the metadata objects of updateProductMetadata
MetadataUpdates ==
    { << <<"color", "Red">> >> }

\* the <<query, limit>> pairs of searchProducts
SearchInputs ==
    ({"iPhone", "Ifone 16", "iphone 16", "iPhone 50k rupees", "red samsung",
      "galaxy s24 mobile", "black phone", "s24 105"} \X {DEFAULT_RESULTS})
    \cup ({"iPhone"} \X {-1, 0, 1})

\* the query parameter of the search and suggestion requests ("" also stands
\* for a request without the parameter)
RequestQueries == {"", " ", "  ", "ip", "red phone"}

\* queryProcessor.processQuery of every query the model searches for
ProcessedQuery ==
    [query \in {input[1] : input \in SearchInputs} \cup RequestQueries |->
        processQuery(query)]

\* the products of a list of product ids
ProductsOf(ids) == [i \in 1..Len(ids) |-> products[ids[i]]]

\* searchProducts' secondary lookup: the corrected query's words when primary
\* matching found nothing
SecondaryMatch(matchingProducts, words) ==
    IF Len(matchingProducts) = 0 /\ Len(words) > 0
    THEN searchProductsByText(Join(words, " "))
    ELSE matchingProducts

\* searchProducts' return value and the stages that led to it, as product ids
SearchRecord(processedQuery, matchingProducts, candidates, filteredProducts, rankedProducts, limit) ==
    [processed |-> processedQuery,
     matched |-> matchingProducts,
     candidates |-> candidates,
     filtered |-> IdsOf(filteredProducts),
     ranked |-> IdsOf(rankedProducts),
     result |-> SliceTo(IdsOf(rankedProducts), Min2(limit, MAX_RESULTS))]

\* searchProducts from applyFilters on
FilterAndRank(query, limit, processedQuery, matchingProducts, candidates, filteredProducts) ==
    SearchRecord(processedQuery, matchingProducts, candidates, filteredProducts,
                 rankProducts(filteredProducts, query, processedQuery), limit)

\* searchProducts from the secondary lookup on; threw tells that an exception
\* left searchProducts
MatchAndRank(query, limit, processedQuery, matchingProducts, candidates) ==
    IF applyFiltersThrows(ProductsOf(candidates), processedQuery)
    THEN [threw |-> TRUE]
    ELSE FilterAndRank(query, limit, processedQuery, matchingProducts, candidates,
                       applyFilters(ProductsOf(candidates), processedQuery))

\* searchProducts once the query is processed
SearchProcessed(query, limit, processedQuery, matchingProducts) ==
    MatchAndRank(query, limit, processedQuery, matchingProducts,
                 SecondaryMatch(matchingProducts,
                                SelectSeq(SplitWs(processedQuery.corrected),
                                       LAMBDA w : Len(w) > 2 \/ AllDigits(w))))

\* searchProducts for a query that is not blank: the stages of the pipeline
SearchStages(query, limit) ==
    SearchProcessed(query, limit, ProcessedQuery[query],
                    findMatchingProducts(query, ProcessedQuery[query]))

(***************************************************************************)
(* The catalog's operations                                                *)
(***************************************************************************)
Init ==
    /\ products = EmptyMap
    /\ order = <<>>
    /\ categoryIndex = EmptyMap
    /\ brandIndex = EmptyMap
    /\ keywordIndex = EmptyMap
    /\ nextProductId = 1
    /\ dataFile = <<>>
    /\ last = [op |-> "init"]

\* the catalog after products.set(product.productId, product); updateIndexes
\* or removeFromIndexes + updateIndexes have produced idx; saveProductsToFile
Store(prods, ord, idx) ==
    /\ products' = prods
    /\ order' = ord
    /\ categoryIndex' = idx.category
    /\ brandIndex' = idx.brand
    /\ keywordIndex' = idx.keyword
    /\ dataFile' = FileOf(prods)

\* an addProduct that leaves the counter alone when the id is supplied
addProductKeepingCounter(data, supplied) ==
    LET id == IF supplied = 0 THEN nextProductId ELSE supplied
        product == NewProduct([data EXCEPT !.productId = id])
    IN /\ nextProductId' = IF supplied = 0 THEN nextProductId + 1 ELSE nextProductId
       /\ Store(MapSet(products, id, product), SetAdd(order, id),
                updateIndexes(Indexes(categoryIndex, brandIndex, keywordIndex), product))
       /\ last' = [op |-> "add", id |-> id, supplied |-> supplied # 0]

\* addProduct(productData); supplied = 0 when productData carries no productId
addProduct(data, supplied) ==
    LET id == IF supplied = 0 THEN nextProductId ELSE supplied
        product == NewProduct([data EXCEPT !.productId = id])
    IN /\ nextProductId' = IF supplied = 0 THEN nextProductId + 1
                           ELSE IF supplied >= nextProductId THEN supplied + 1
                           ELSE nextProductId
       /\ Store(MapSet(products, id, product), SetAdd(order, id),
                updateIndexes(Indexes(categoryIndex, brandIndex, keywordIndex), product))
       /\ last' = [op |-> "add", id |-> id, supplied |-> supplied # 0]

\* loadProducts is the one caller that supplies product ids: it runs at start-up,
\* before any request is served, over a file whose records have distinct ids
Loading == last.op = "init" \/ (last.op = "add" /\ last.supplied)

AddProduct ==
    \E data \in ProductData, supplied \in 0..MaxProductId :
        /\ supplied = 0 => nextProductId <= MaxProductId
        /\ supplied # 0 => Loading /\ supplied \notin DOMAIN products
        /\ addProduct(data, supplied)

\* the product and the indexes after updateProductMetadata's steps
UpdatedProduct(product, metadata) ==
    updateSearchText([product EXCEPT
                        !.metadata = MergeMetadata(product.metadata, metadata, 1)])

\* an update that unfiles the product and does not file it again
UnfiledAfterUpdate(idx, old, new) == removeFromIndexes(idx, new)

ReindexedAfterUpdate(idx, old, new) == updateIndexes(removeFromIndexes(idx, new), new)

updateProductMetadata(productId, metadata) ==
    IF productId \notin DOMAIN products
    THEN /\ UNCHANGED catalog
         /\ last' = [op |-> "update", id |-> productId, found |-> FALSE]
    ELSE LET new == UpdatedProduct(products[productId], metadata) IN
         /\ Store(MapSet(products, productId, new), order,
                  ReindexedAfterUpdate(Indexes(categoryIndex, brandIndex, keywordIndex),
                                       products[productId], new))
         /\ UNCHANGED nextProductId
         /\ last' = [op |-> "update", id |-> productId, found |-> TRUE]

UpdateProductMetadata ==
    \E productId \in 1..MaxProductId, metadata \in MetadataUpdates :
        updateProductMetadata(productId, metadata)

\* a deleteProduct that returns true whether or not it found the product
deleteProductAnswersTrue(productId) ==
    IF productId \notin DOMAIN products
    THEN /\ UNCHANGED catalog
         /\ last' = [op |-> "delete", id |-> productId, found |-> TRUE]
    ELSE /\ Store(MapDelete(products, productId), SetDelete(order, productId),
                  removeFromIndexes(Indexes(categoryIndex, brandIndex, keywordIndex),
                                    products[productId]))
         /\ UNCHANGED nextProductId
         /\ last' = [op |-> "delete", id |-> productId, found |-> TRUE]

deleteProduct(productId) ==
    IF productId \notin DOMAIN products
    THEN /\ UNCHANGED catalog
         /\ last' = [op |-> "delete", id |-> productId, found |-> FALSE]
    ELSE /\ Store(MapDelete(products, productId), SetDelete(order, productId),
                  removeFromIndexes(Indexes(categoryIndex, brandIndex, keywordIndex),
                                    products[productId]))
         /\ UNCHANGED nextProductId
         /\ last' = [op |-> "delete", id |-> productId, found |-> TRUE]

DeleteProduct == \E productId \in 1..MaxProductId : deleteProduct(productId)

\* what searchProducts(query, limit) returns (result) and how it got there;
\* repeated tells that the operation before it was this same search
SearchOutcome(query, limit) ==
    [op |-> "search", query |-> query, limit |-> limit, repeated |-> last.op = "search"]
    @@ (IF Trim(query) = "" THEN [result |-> <<>>] ELSE SearchStages(query, limit))

\* a search that sorts the catalog's own list of products in place
searchProductsInPlace(query, limit) ==
    LET outcome == SearchOutcome(query, limit)
        ranked == IF "ranked" \in DOMAIN outcome THEN outcome.ranked ELSE <<>>
    IN /\ last' = outcome
       /\ order' = ranked \o SelectSeq(order, LAMBDA id : id \notin Range(ranked))
       /\ UNCHANGED <<products, categoryIndex, brandIndex, keywordIndex,
                      nextProductId, dataFile>>

\* searchProducts(query, limit): reads the catalog and returns last.result
searchProducts(query, limit) ==
    /\ UNCHANGED catalog
    /\ last' = SearchOutcome(query, limit)

\* A search leaves the catalog as it is, so a run of searches is explored as
\* its last search, and as that search run once more.
SearchProducts ==
    \E input \in SearchInputs :
        /\ last.op = "search" => input = <<last.query, last.limit>>
        /\ searchProducts(input[1], input[2])

Next == AddProduct \/ UpdateProductMetadata \/ DeleteProduct \/ SearchProducts

Spec == Init /\ [][Next]_vars

(***************************************************************************)
(* The HTTP handlers of search and suggestions (SearchController), over a  *)
(* catalog whose metadata updates carry a value that is no string          *)
(***************************************************************************)
\* updateProductMetadata(productId, {color: 5})
UpdateTypedMetadata ==
    \E productId \in 1..MaxProductId :
        updateProductMetadata(productId, << <<"color", "5", "number">> >>)

\* the response to what a service call gave: res.json(...) with status 200, or
\* next(error) and errorHandler's status 500 when the call raised
Response(outcome) ==
    [status |-> IF "threw" \in DOMAIN outcome THEN 500 ELSE 200] @@ outcome

\* a search request whose ranking sorts the catalog's own list of products
SearchRequestSortingInPlace ==
    \E query \in RequestQueries, limitParam \in {0, 1} :
        LET limit == IF limitParam = 0 THEN DEFAULT_RESULTS ELSE limitParam
            outcome == IF Trim(query) = "" THEN [status |-> 400]
                       ELSE Response(SearchStages(query, limit))
            ranked == IF "ranked" \in DOMAIN outcome THEN outcome.ranked ELSE <<>>
        IN /\ last' = [op |-> "searchRequest", query |-> query, limit |-> limit]
                       @@ outcome
           /\ order' = ranked \o SelectSeq(order, LAMBDA id : id \notin Range(ranked))
           /\ UNCHANGED <<products, categoryIndex, brandIndex, keywordIndex,
                          nextProductId, dataFile>>

\* GET /search: status 400 for a blank query, 500 when searchProducts raises
\* (next(error) reaches errorHandler), else 200 with the products as data;
\* limitParam 0 stands for a missing or unparsable limit
SearchRequest ==
    \E query \in RequestQueries, limitParam \in {0, 1} :
        LET limit == IF limitParam = 0 THEN DEFAULT_RESULTS ELSE limitParam IN
        /\ UNCHANGED catalog
        /\ last' = [op |-> "searchRequest", query |-> query, limit |-> limit]
                    @@ (IF Trim(query) = "" THEN [status |-> 400]
                        ELSE Response(SearchStages(query, limit)))

\* getSearchSuggestions once searchProducts(query, 50) has given found
SuggestionsFrom(queryLower, limit, found) ==
    IF "threw" \in DOMAIN found THEN [threw |-> TRUE]
    ELSE LET StartsLonger(word) ==
                 Len(word) > Len(queryLower) /\ MatchAt(word, 1, queryLower)
             \* the suggestions one title gives: each matching word with the
             \* two words after it
             OfTitle(titleWords) ==
                 LET hits == SelectSeq([i \in 1..Len(titleWords) |-> i],
                                       LAMBDA i : StartsLonger(titleWords[i]))
                 IN [k \in 1..Len(hits) |->
                        Join(SubSeq(titleWords, hits[k],
                                    Min2(hits[k] + 2, Len(titleWords))), " ")]
             RECURSIVE FromProducts(_, _, _)
             FromProducts(ids, i, set) ==
                 IF i > Len(ids) THEN set
                 ELSE FromProducts(ids, i + 1,
                        AddAll(set, OfTitle(SplitWs(ToLower(products[ids[i]].title))), 1))
             brands == SelectSeq(<<"iphone", "samsung", "oneplus", "xiaomi", "redmi">>,
                                 LAMBDA brand : MatchAt(brand, 1, queryLower))
         IN [data |-> SliceTo(AddAll(FromProducts(found.result, 1, <<>>), brands, 1),
                              limit)]

\* SearchService.getSearchSuggestions(query, limit)
getSearchSuggestions(query, limit) ==
    IF Len(query) < 2 THEN [data |-> <<>>]
    ELSE SuggestionsFrom(ToLower(query), limit,
                         IF Trim(query) = "" THEN [result |-> <<>>]
                         ELSE SearchStages(query, DEFAULT_RESULTS))

\* GET /search/suggestions: an empty list for a query shorter than 2
SuggestionRequest ==
    \E query \in RequestQueries :
        /\ UNCHANGED catalog
        /\ last' = [op |-> "suggestionRequest", query |-> query]
                    @@ (IF Len(query) < 2 THEN [status |-> 200, data |-> <<>>]
                        ELSE Response(getSearchSuggestions(query, 10)))

NextApi == AddProduct \/ UpdateTypedMetadata \/ SearchRequest \/ SuggestionRequest

SpecApi == Init /\ [][NextApi]_vars

(***************************************************************************)
(* Properties of the requests                                              *)
(***************************************************************************)
\* some product's metadata holds a value that is not a string
TypedCatalog ==
    \E id \in DOMAIN products :
        \E i \in 1..Len(products[id].metadata) : Len(products[id].metadata[i]) = 3

\* C13: searchProducts raises no exception, whatever the query and whatever
\* metadata object an update has stored in the catalog
SearchNeverRaises ==
    last.op = "searchRequest" => "threw" \notin DOMAIN last

\* a search over a catalog with a metadata value that is not a string has
\* returned its results
SearchedTypedCatalog ==
    /\ last.op = "searchRequest" /\ last.status = 200
    /\ "result" \in DOMAIN last /\ last.result # <<>>
    /\ TypedCatalog

\* C22: search and suggestion requests only read the catalog: the product
\* collection with every product's fields and its order, the three indexes and
\* nextProductId stay as they were, and the products a search returns are the
\* catalog's own (a product is referred to by its id)
RequestsOnlyRead ==
    [][last'.op \in {"searchRequest", "suggestionRequest"}
          => /\ UNCHANGED catalog
             /\ "result" \in DOMAIN last' => Range(last'.result) \subseteq DOMAIN products]_vars

\* a suggestion request over a catalog with products returned suggestions
SuggestionsReturned ==
    /\ last.op = "suggestionRequest" /\ last.status = 200
    /\ last.data # <<>>
    /\ DOMAIN products # {}

\* the last request carried an empty or whitespace-only query (a missing
\* query parameter reads as the empty one)
BlankRequest(op) ==
    last.op = op /\ \A i \in 1..Len(last.query) : IsSpace(Char(last.query, i))

\* C14 as stated: a blank query is no error; the search request answers with
\* an empty result set and the suggestion request with an empty list
BlankQueryIsNoError ==
    /\ BlankRequest("searchRequest")
            => last.status = 200 /\ "result" \in DOMAIN last /\ last.result = <<>>
    /\ BlankRequest("suggestionRequest") => last.status = 200 /\ last.data = <<>>

\* C14 amended: a blank query raises nothing; the suggestion request answers
\* with status 200 and an empty list, the search request refuses the query
\* with status 400 and returns no result set
BlankQueryRaisesNothing ==
    /\ BlankRequest("searchRequest")
            => last.status = 400 /\ DOMAIN last = {"op", "query", "limit", "status"}
    /\ BlankRequest("suggestionRequest") => last.status = 200 /\ last.data = <<>>

\* a whitespace-only search request was answered over a catalog with products
BlankSearchRequested ==
    /\ BlankRequest("searchRequest") /\ last.query # ""
    /\ products # EmptyMap

(***************************************************************************)
(* processQuery on its own: queries made of a product word and, for some,  *)
(* an amount with a unit                                                   *)
(***************************************************************************)
QueryHeads ==
    {"Ifone", "iPhone", "iphone", "phone", "samsng", "laptop", "Sastha wala iPhone",
     "nokia", "best cheap phone", "cheap best phone", "cheap new phone", "new phone",
     "redmi", "red phone"}
QueryTails == {"", " 16", " 50k rupees"}

\* queryProcessor.processQuery(query) for a query without an amount
ProcessQuery ==
    \E head \in QueryHeads, tail \in QueryTails :
        /\ last.op = "init"
        /\ UNCHANGED catalog
        /\ last' = [op |-> "query", query |-> head \o tail, amount |-> 0, unit |-> "",
                    processed |-> processQuery(head \o tail)]

\* queryProcessor.processQuery(query) for a query with an amount and a unit
ProcessPriceQuery ==
    \E head \in QueryHeads,
       amount \in {<<"2", 2>>, <<"50", 50>>, <<"700", 700>>},
       gap \in {"", " "},
       unit \in {"k", "thousand", "lakh", "lac", "rupees", "rs"} :
        LET query == head \o " " \o amount[1] \o gap \o unit IN
        /\ last.op = "init"
        /\ UNCHANGED catalog
        /\ last' = [op |-> "query", query |-> query,
                    amount |-> amount[2], unit |-> unit,
                    processed |-> processQuery(query)]

NextQuery == ProcessQuery \/ ProcessPriceQuery

SpecQuery == Init /\ [][NextQuery]_vars

(***************************************************************************)
(* rankProducts on its own: candidate lists that searchProducts would hand *)
(* to it, longer than the catalog above is driven to                       *)
(***************************************************************************)
\* the longest candidate list that is ranked
MaxRankLen == 4

\* the candidates: products alike in everything but <<reviewCount, price>>;
\* 1000 reviews are 0.006 of finalScore
RankProductData ==
    {Data("Smart Phone", "", "", "", c[2], 0, <<>>, [Poor EXCEPT !.reviewCount = c[1]]) :
        c \in {<<0, 100>>, <<0, 200>>, <<1000, 100>>, <<1000, 200>>, <<2000, 300>>}}

RankLists == UNION {[1..n -> RankProductData] : n \in 1..MaxRankLen}

RankQueries == {"cheap phone", "phone", "best phone", "latest phone"}

\* new Product(data) of every candidate, and processQuery of every query
RankProduct == [data \in RankProductData |-> NewProduct(data)]
RankProcessed == [query \in RankQueries |-> processQuery(query)]

\* rankingEngine.rankProducts(prods, query, processedQuery)
RankProducts ==
    \E list \in RankLists, query \in RankQueries :
        LET prods == [i \in 1..Len(list) |->
                         [RankProduct[list[i]] EXCEPT !.productId = i]]
        IN /\ last.op = "init"
           /\ UNCHANGED catalog
           /\ last' = [op |-> "rank", query |-> query,
                       processed |-> RankProcessed[query],
                       ranked |-> rankProducts(prods, query, RankProcessed[query])]

NextRank == RankProducts

SpecRank == Init /\ [][NextRank]_vars

(***************************************************************************)
(* calculateRankingScore on its own: products at the ends of the data      *)
(* model's ranges, and queries with and without a price ceiling.  A query  *)
(* whose figure has 310 digits is longer than the text operators above can *)
(* take, so it is scored as the query with a short figure and the ceiling  *)
(* that extractPriceRange gives the long one, Infinity: no text of the     *)
(* products holds either figure, and nothing else of the score reads it.   *)
(***************************************************************************)
ScoreProductData ==
    {Data(text[1], "", text[2], "", price, 0, text[3], q) :
        text \in {<<"Smart Phones", "", <<>> >>,
                  <<"Samsung Galaxy S24", "Samsung",
                    << <<"color", "Red">>, <<"model", "S24">> >> >>},
        price \in {100, 60000},
        q \in {Poor, Good,
               [Good EXCEPT !.reviewCount = 20000, !.unitsSold = 200000,
                            !.discountPercentage = 9000],
               [Poor EXCEPT !.complaintCount = 2000, !.stock = 25]}}

ScoreQueries ==
    {"phone", "phone 50k", "red samsung 50k", "red samsung s24", "latest phone", "tv"}

\* the divisors that scoring product for the query divides by
ScoringDivisors(product, processedQuery) ==
    LET keywords == SelectSeq(SplitWs(ToLower(processedQuery.corrected)),
                           LAMBDA k : Len(k) > 2)
        intent == processedQuery.intent
        texts == <<ToLower(product.title), ToLower(product.description),
                   ToLower(Join(MetaValues(product.metadata), " "))>>
    IN {5, 10000, 1000, 100000, 50}
       \cup (IF \E i \in 1..3 : MatchCount(texts[i], keywords) > 0
             THEN {Len(keywords)} ELSE {})
       \cup (IF keywords # <<>> THEN {FUZZY_THRESHOLD, Len(keywords)} ELSE {})
       \cup (IF intent.hasPriceRange /\ intent.maxPrice > 0
                /\ product.price <= intent.maxPrice
             THEN {intent.maxPrice} ELSE {})

\* rankingEngine.calculateRankingScore(product, query, processedQuery)
CalculateRankingScore ==
    \E data \in ScoreProductData, query \in ScoreQueries, longFigure \in BOOLEAN :
        LET product == NewProduct(data)
            written == processQuery(query)
            processed == IF longFigure THEN [written EXCEPT !.intent.maxPrice = Infinity]
                         ELSE written
        IN /\ last.op = "init"
           /\ longFigure => written.intent.maxPrice > 0
           /\ UNCHANGED catalog
           /\ last' = [op |-> "score", query |-> query, product |-> product,
                       processed |-> processed,
                       relevance |-> calculateRelevanceScore(product, query, processed),
                       quality |-> calculateQualityScore(product),
                       popularity |-> calculatePopularityScore(product),
                       divisors |-> ScoringDivisors(product, processed),
                       finalScore |-> calculateRankingScore(product, query, processed)]

SpecScore == Init /\ [][CalculateRankingScore]_vars

(***************************************************************************)
(* Properties of the catalog                                               *)
(***************************************************************************)
\* the keys under which an index files id
KeysOf(index, id) == {k \in DOMAIN index : id \in Range(index[k])}

\* C1: the keyword, brand and category indexes mirror the live products: a
\* live product's id is filed under exactly its current searchKeywords, its
\* lower-cased brand and its lower-cased category
IndexesMirrorProducts ==
    \A id \in DOMAIN products :
        /\ KeysOf(keywordIndex, id) = Range(products[id].searchKeywords)
        /\ KeysOf(brandIndex, id) = {ToLower(products[id].brand)}
        /\ KeysOf(categoryIndex, id) = {ToLower(products[id].category)}

\* a metadata update has replaced the colour of a live product
ColourReplaced ==
    /\ last.op = "update" /\ last.found
    /\ MetaGet(products[last.id].metadata, "color") = "Red"
    /\ "red" \in KeysOf(keywordIndex, last.id)

\* C2: after deleteProduct(id) has returned true, id is in no bucket of the
\* keyword, brand and category indexes
DeletedIdInNoBucket ==
    (last.op = "delete" /\ last.found) =>
        /\ KeysOf(keywordIndex, last.id) = {}
        /\ KeysOf(brandIndex, last.id) = {}
        /\ KeysOf(categoryIndex, last.id) = {}

\* a product is deleted and its current keywords, brand and category are gone
ProductDeleted ==
    /\ last.op = "delete" /\ last.found
    /\ KeysOf(brandIndex, last.id) = {}
    /\ KeysOf(categoryIndex, last.id) = {}
    /\ "red" \notin KeysOf(keywordIndex, last.id)

\* every live product is filed under its category, its brand and each of its
\* searchKeywords
LiveProductsFiled ==
    \A id \in DOMAIN products :
        /\ ToLower(products[id].category) \in KeysOf(categoryIndex, id)
        /\ ToLower(products[id].brand) \in KeysOf(brandIndex, id)
        /\ Range(products[id].searchKeywords) \subseteq KeysOf(keywordIndex, id)

\* every id filed in an index is the id of a live product
FiledProductsLive ==
    \A index \in {categoryIndex, brandIndex, keywordIndex} :
        \A key \in DOMAIN index : Range(index[key]) \subseteq DOMAIN products

\* C12: the handlers run to completion one after the other, so a search runs
\* between whole writes; the catalog it reads has every live product filed in
\* the indexes and no id filed that is absent from the product collection.
SearchSeesWholeWrites ==
    last.op = "search" => LiveProductsFiled /\ FiledProductsLive

\* a search over a catalog that holds products, all of them filed
SearchedFiledCatalog ==
    /\ last.op = "search"
    /\ DOMAIN products # {}
    /\ LiveProductsFiled

\* C27: updateProductMetadata and deleteProduct on an id that is not in the
\* catalog report not-found and leave the product collection, the indexes,
\* nextProductId and the file as they were
NotFoundChangesNothing ==
    [][(last'.op \in {"update", "delete"} /\ last'.id \notin DOMAIN products)
          => ~last'.found /\ UNCHANGED catalog]_vars

\* a delete of an id that is not in the catalog was refused although the
\* catalog holds products
MissingIdRefused ==
    /\ last.op = "delete" /\ ~last.found
    /\ last.id \notin DOMAIN products
    /\ DOMAIN products # {}

\* C23: no key of the keyword, brand or category index maps to an empty set
\* of ids
EmptyBucketsPruned ==
    \A index \in {categoryIndex, brandIndex, keywordIndex} :
        \A key \in DOMAIN index : index[key] # <<>>

\* a delete has left one product, and the brand and category indexes hold
\* that product's keys alone
BucketsOfDeletedPruned ==
    /\ last.op = "delete" /\ last.found
    /\ \E id \in DOMAIN products :
           /\ DOMAIN products = {id}
           /\ DOMAIN brandIndex = {ToLower(products[id].brand)}
           /\ DOMAIN categoryIndex = {ToLower(products[id].category)}

\* C24: the lookups by keyword, brand and category never miss a live product
\* that has the key: every live product is among the products of its brand, of
\* its category and of each of its searchKeywords
LookupsFindLiveProducts ==
    \A id \in DOMAIN products :
        /\ id \in Range(getProductsByBrand(products[id].brand))
        /\ id \in Range(getProductsByCategory(products[id].category))
        /\ \A keyword \in Range(products[id].searchKeywords) :
               id \in Range(getProductsByKeyword(keyword))

\* a product whose colour an update has set is found under the new keyword
UpdatedProductFound ==
    /\ last.op = "update" /\ last.found
    /\ "red" \in Range(products[last.id].searchKeywords)
    /\ last.id \in Range(getProductsByKeyword("red"))

\* C16: the ids the store assigns are unique and increasing: the counter never
\* decreases and stays above every id in the catalog, so the id given to a
\* product supplied without one (the counter's value) is greater than every id
\* assigned or supplied before, deleted or not
AssignedIdsIncrease ==
    [][/\ nextProductId' >= nextProductId
       /\ \A id \in DOMAIN products \cup DOMAIN products' : id < nextProductId'
       /\ (last'.op = "add" /\ products' # products /\ ~last'.supplied)
            => /\ last'.id = nextProductId
               /\ last'.id \notin DOMAIN products
               /\ nextProductId' = last'.id + 1]_vars

\* id 2 was assigned although the product of id 1 is gone
AssignedAfterDelete ==
    /\ last.op = "add" /\ ~last.supplied
    /\ last.id = 2 /\ DOMAIN products = {2}

\* the last operation was a create, metadata update or delete that succeeded
Written ==
    \/ last.op = "add"
    \/ last.op \in {"update", "delete"} /\ last.found

\* the product as reloaded from the file has the metadata, brand, category and
\* prices of the product in memory
ReloadedAs(id) ==
    /\ Range(Reloaded[id].metadata) = Range(products[id].metadata)
    /\ Reloaded[id].brand = products[id].brand
    /\ Reloaded[id].category = products[id].category
    /\ Reloaded[id].price = products[id].price
    /\ Reloaded[id].mrp = products[id].mrp

\* C15: after every successful create, metadata update and delete, reloading
\* the catalog from the file yields the same set of products with the same
\* metadata, brand, category and prices as the catalog in memory
WritesPersisted ==
    Written => /\ DOMAIN Reloaded = DOMAIN products
               /\ \A id \in DOMAIN products : ReloadedAs(id)

\* a delete left products in the catalog and the file reloads to all of them
\* as they are in memory
CatalogReloadedAfterDelete ==
    /\ last.op = "delete" /\ last.found
    /\ products # EmptyMap
    /\ DOMAIN Reloaded = DOMAIN products
    /\ \A id \in DOMAIN products : ReloadedAs(id)

(***************************************************************************)
(* Properties of searchProducts                                            *)
(***************************************************************************)
\* the last operation was a search for a query that is not blank
Searched == last.op = "search" /\ "processed" \in DOMAIN last

\* C3: searchProducts returns at most min(limit, 100) products, and none when
\* that number is zero or negative
ResultWithinLimit ==
    last.op = "search" =>
        Len(last.result) <= Max2(0, Min2(last.limit, MAX_RESULTS))

\* a search with a positive limit cut the ranked list down to the limit
ResultTruncated ==
    /\ Searched
    /\ last.limit > 0
    /\ Len(last.ranked) > last.limit
    /\ Len(last.result) = last.limit

\* C4: when the query's intent carries a price ceiling, every product that
\* survives applyFilters, and every product returned, costs at most the ceiling
PriceCeilingRespected ==
    (Searched /\ last.processed.intent.hasPriceRange
              /\ last.processed.intent.maxPrice # NoPrice) =>
        \A id \in Range(last.filtered) \cup Range(last.result) :
            products[id].price <= last.processed.intent.maxPrice

\* a search with a price ceiling kept a candidate and dropped a dearer one
PriceCeilingApplied ==
    /\ Searched
    /\ last.processed.intent.hasPriceRange
    /\ last.processed.intent.maxPrice # NoPrice
    /\ Len(last.filtered) > 0
    /\ \E id \in Range(last.candidates) :
           /\ id \notin Range(last.filtered)
           /\ products[id].price > last.processed.intent.maxPrice

\* the product satisfies every constraint that intent.filterBy holds
SatisfiesFilterBy(product, intent) ==
    /\ (intent.hasPriceRange /\ intent.maxPrice # NoPrice)
            => product.price <= intent.maxPrice
    /\ intent.color # ""
            => Includes(ToLower(MetaGet(product.metadata, "color")), ToLower(intent.color))
    /\ intent.model # ""
            => \/ Includes(ToLower(MetaGet(product.metadata, "model")), ToLower(intent.model))
               \/ /\ MetaGet(product.metadata, "model") = ""
                  /\ Includes(ToLower(product.title), ToLower(intent.model))
    /\ intent.brand # "" => ToLower(product.brand) = ToLower(intent.brand)

\* C20: applyFilters keeps exactly the candidates that satisfy every
\* constraint present in intent.filterBy (price ceiling, colour, model, brand)
\* and no others, in the candidates' order; an absent constraint excludes
\* nothing
FiltersKeepExactly ==
    Searched =>
        last.filtered = SelectSeq(last.candidates,
            LAMBDA id : SatisfiesFilterBy(products[id], last.processed.intent))

\* a search with a constraint kept one candidate and dropped another, and the
\* product kept passed the model filter by its title
FilteredByTitle ==
    /\ Searched
    /\ last.processed.intent.model # ""
    /\ Len(last.filtered) > 0 /\ Len(last.filtered) < Len(last.candidates)
    /\ \E id \in Range(last.filtered) : MetaGet(products[id].metadata, "model") = ""

\* C26: every element of a searchProducts result is a product of the product
\* collection and none occurs twice; a deleted product is in no later result
ResultIsLiveAndDistinct ==
    last.op = "search" =>
        /\ Range(last.result) \subseteq DOMAIN products
        /\ \A i, j \in 1..Len(last.result) : last.result[i] = last.result[j] => i = j

\* a search for 'black phone' returned products although the bucket of
\* 'black' still files an id that is no longer in the product collection
SearchedOverStaleIndex ==
    /\ last.op = "search" /\ last.query = "black phone" /\ last.result # <<>>
    /\ "black" \in DOMAIN keywordIndex
    /\ Range(keywordIndex["black"]) \ DOMAIN products # {}

\* C30: the secondary lookup never contributes a candidate: the candidates
\* handed to applyFilters are the products findMatchingProducts returned, and
\* when it returned none, searchProductsByText over the corrected query's
\* words returns none either
SecondaryAddsNothing ==
    Searched =>
        /\ last.candidates = last.matched
        /\ last.matched = <<>>
              => searchProductsByText(
                     Join(SelectSeq(SplitWs(last.processed.corrected),
                                    LAMBDA w : Len(w) > 2 \/ AllDigits(w)), " ")) = <<>>

\* the secondary lookup ran over a catalog with products: findMatchingProducts
\* had found nothing for a query with keywords
SecondaryLookupRan ==
    /\ Searched
    /\ last.matched = <<>>
    /\ MatchKeywords(last.processed) # <<>>
    /\ DOMAIN products # {}

\* C6: a search changes nothing of the catalog, and the same search run again
\* on the unchanged catalog returns the same products in the same order
SearchRepeatable ==
    [][last'.op = "search" =>
          /\ UNCHANGED catalog
          /\ (last.op = "search" /\ last'.query = last.query /\ last'.limit = last.limit)
                 => last'.result = last.result]_vars

\* a search that returned two products or more has been run a second time
SearchRepeated ==
    /\ last.op = "search"
    /\ last.repeated
    /\ Len(last.result) >= 2

\* the candidates searchProducts collects for query, before applyFilters
CandidatesOf(query) == Range(SearchStages(query, DEFAULT_RESULTS).candidates)

\* C8: in every catalog the candidate set of the query 'Ifone 16' is the
\* candidate set of the query 'iphone 16'
Ifone16SameCandidates == CandidatesOf("Ifone 16") = CandidatesOf("iphone 16")

\* both queries find the iPhone 16 of the catalog
Ifone16FindsIphone16 ==
    \E id \in CandidatesOf("Ifone 16") \cap CandidatesOf("iphone 16") :
        products[id].title = "Apple iPhone 16"

\* product's title or description contains 'iphone'
HasIphoneText(product) ==
    \/ Includes(ToLower(product.title), "iphone")
    \/ Includes(ToLower(product.description), "iphone")

\* id entered the matches of the last search through the category heuristic or
\* the fuzzy fallback only: no earlier stage of findMatchingProducts had it
FallbackOnly(id) == id \notin Range(MatchStages(last.query, last.processed).brand)

\* the two products have the same inputs of the quality score, the popularity
\* score and the boosts
SameQuality(p, q) ==
    /\ p.rating = q.rating
    /\ p.stock = q.stock
    /\ p.unitsSold = q.unitsSold
    /\ p.returnRate = q.returnRate
    /\ p.reviewCount = q.reviewCount
    /\ p.complaintCount = q.complaintCount
    /\ p.discountPercentage = q.discountPercentage
    /\ p.isLatest = q.isLatest

CloseTerms(word) ==
    {term \in Range(Brands) \cup Range(ProductTerms) : Leven(word, term) \in 1..2}

\* the words of the last query after normalisation, and of its corrected text
QueryWords == SplitWs(last.processed.normalized)
CorrectedWords == SplitWs(last.processed.corrected)

\* C7: a query word longer than 3 characters that is 1 or 2 edits away from a
\* brand or product term is replaced by that term in the corrected text, and
\* the word 'ifone' by 'iphone'
CloseWordsCorrected ==
    last.op = "query" =>
        /\ Len(CorrectedWords) = Len(QueryWords)
        /\ \A i \in 1..Len(QueryWords) :
               (Len(QueryWords[i]) > 3 /\ CloseTerms(QueryWords[i]) # {}) =>
                   /\ CorrectedWords[i] \in CloseTerms(QueryWords[i])
                   /\ QueryWords[i] = "ifone" => CorrectedWords[i] = "iphone"

\* the misspelt word 'samsng' has been replaced by the brand 'samsung'
SamsngCorrected ==
    /\ last.op = "query"
    /\ \E i \in 1..Len(QueryWords) :
           QueryWords[i] = "samsng" /\ CorrectedWords[i] = "samsung"

\* C25: spelling correction leaves a word alone that is one of the known
\* brands or product terms: it stands unchanged, at its place, in the corrected
\* text
VocabularyWordsKept ==
    last.op = "query" =>
        LET translated == SplitWs(translateHinglish(last.processed.normalized)) IN
        /\ Len(CorrectedWords) = Len(translated)
        /\ \A i \in 1..Len(translated) :
               translated[i] \in Range(Brands) \cup Range(ProductTerms)
                   => CorrectedWords[i] = translated[i]

\* the product term 'laptop' came through the correction unchanged
LaptopKept ==
    /\ last.op = "query"
    /\ "laptop" \in Range(QueryWords) /\ "laptop" \in Range(CorrectedWords)

\* C28: the number of a recognised price expression is used as the price
\* ceiling alone: the model constraint of the query does not hold that figure
PriceFigureIsNoModel ==
    (last.op = "query" /\ last.amount # 0 /\ last.processed.intent.hasPriceRange) =>
        \A figure \in {"2", "50", "700"} :
            ParseDigits(figure, 1, 0) = last.amount
                => ~Includes(last.processed.intent.model, figure)

\* a query with a price in thousands got the ceiling and no model constraint
ThousandsPricedWithoutModel ==
    /\ last.op = "query" /\ last.amount # 0 /\ last.unit = "k"
    /\ last.processed.intent.hasPriceRange
    /\ last.processed.intent.model = ""

\* C29: the colour filter is set only when the colour name stands in the
\* query as a whole word or phrase; a query without a colour word, such as
\* one naming the brand 'redmi', gets no colour filter
ColourIsWholeWord ==
    (last.op = "query" /\ last.processed.intent.color # "") =>
        Includes(" " \o last.processed.corrected \o " ",
                 " " \o ToLower(last.processed.intent.color) \o " ")

\* a query with the word 'red' got the colour filter 'red'
RedWordFiltered ==
    /\ last.op = "query"
    /\ "red" \in Range(CorrectedWords)
    /\ last.processed.intent.color = "red"

\* the factor of a price unit
UnitScale(unit) ==
    CASE unit \in {"k", "thousand"} -> 1000
      [] unit \in {"lakh", "lac"} -> 100000
      [] unit \in {"rupees", "rs"} -> 1

\* C10: the extracted maxPrice is the query's amount times the factor of its
\* unit, and 'iPhone 50k rupees' yields 50000
PriceScaledByUnit ==
    last.op = "query" =>
        /\ last.unit # "" =>
               last.processed.intent.maxPrice = last.amount * UnitScale(last.unit)
        /\ last.query = "iPhone 50k rupees" =>
               last.processed.intent.maxPrice = 50000

\* the query 'iPhone 50k rupees' has been processed and carries a price ceiling
FiftyKProcessed ==
    /\ last.op = "query"
    /\ last.query = "iPhone 50k rupees"
    /\ last.processed.intent.hasPriceRange

\* C11: a query with the Hinglish word "sastha", such as 'Sastha wala iPhone',
\* has the word translated to "cheap" in the text the intent is extracted
\* from, and its intent sorts by ascending price.
SasthaSortsByPrice ==
    (last.op = "query" /\ Includes(last.processed.normalized, "sastha"))
        => /\ Includes(last.processed.corrected, "cheap")
           /\ last.processed.intent.sortBy = "price_asc"

\* 'Sastha wala iPhone' itself has been processed
SasthaWalaProcessed ==
    /\ last.op = "query"
    /\ last.query = "Sastha wala iPhone"
    /\ last.processed.intent.sortBy = "price_asc"

\* the words of the query as processQuery received it, and as it was corrected
QueryWordsOf(stage) == Range(SplitWs(last.processed[stage]))

\* C17: a query with the word 'iphone' gets the brand filter 'apple', a query
\* with another brand word gets that brand, and a query with no brand word,
\* typed or corrected to, gets no brand filter
BrandWordGivesBrand ==
    last.op = "query" =>
        LET typed == QueryWordsOf("normalized") \cap Range(QueryBrands)
            brand == last.processed.intent.brand
        IN /\ "iphone" \in typed => brand = "apple"
           /\ (typed # {} /\ "iphone" \notin typed) => brand \in typed
           /\ (typed = {} /\ QueryWordsOf("corrected") \cap Range(QueryBrands) = {})
                => brand = ""

\* a query with the brand word 'nokia' was given the brand filter 'nokia'
NokiaBrandFiltered ==
    /\ last.op = "query" /\ "nokia" \in QueryWordsOf("normalized")
    /\ last.processed.intent.brand = "nokia"

\* the sortBy of a query with these words: the last of the groups latest,
\* price_asc, rating that has a keyword among them
SortByOfWords(words) ==
    IF words \cap {"best", "top"} # {} THEN "rating"
    ELSE IF words \cap {"cheap", "sasta", "sastha", "affordable", "budget"} # {}
    THEN "price_asc"
    ELSE IF words \cap {"latest", "new", "newest"} # {} THEN "latest"
    ELSE "none"

\* C19: sortBy is that of the last group, in the order latest, price_asc,
\* rating, with a keyword in the query the intent is extracted from, wherever
\* the keywords stand; a query with no sort keyword gets no sortBy
LastSortGroupWins ==
    last.op = "query" =>
        last.processed.intent.sortBy = SortByOfWords(QueryWordsOf("corrected"))

\* a query with 'cheap' before 'best' and one with 'best' before 'cheap' sort
\* by rating
CheapBestSortsByRating ==
    /\ last.op = "query" /\ last.query \in {"cheap best phone", "best cheap phone"}
    /\ last.processed.intent.sortBy = "rating"

(***************************************************************************)
(* Properties of rankProducts                                              *)
(***************************************************************************)
\* the finalScore rankProducts computed for the i-th product of its output
RankedScore(i) == calculateRankingScore(last.ranked[i], last.query, last.processed)

\* C5: under sortBy = price_asc, two products of the ranked output whose
\* finalScores differ by less than 0.01 appear in non-decreasing price order
NearTiesInPriceOrder ==
    (last.op = "rank" /\ last.processed.intent.sortBy = "price_asc") =>
        \A i, j \in 1..Len(last.ranked) :
            (i < j /\ Abs(RankedScore(i) - RankedScore(j)) < NearTie) =>
                last.ranked[i].price <= last.ranked[j].price

\* a price_asc ranking put the cheaper of two near-tied products first although
\* it has the lower score
NearTieReordered ==
    /\ last.op = "rank"
    /\ last.processed.intent.sortBy = "price_asc"
    /\ \E i, j \in 1..Len(last.ranked) :
           /\ i < j
           /\ RankedScore(i) < RankedScore(j)
           /\ RankedScore(j) - RankedScore(i) < NearTie
           /\ last.ranked[i].price < last.ranked[j].price

\* C18: whatever the sortBy, two products of the ranked output whose finalScores
\* differ by 0.01 or more appear with the higher score first, and without a
\* sortBy the whole output is in non-increasing finalScore order
HigherScoreFirst ==
    last.op = "rank" =>
        \A i, j \in 1..Len(last.ranked) :
            i < j => /\ RankedScore(j) - RankedScore(i) < NearTie
                     /\ last.processed.intent.sortBy = "none"
                            => RankedScore(i) >= RankedScore(j)

\* a ranking with a sortBy put the higher-scored of two products that are no
\* near-tie first
ScoreOrderKept ==
    /\ last.op = "rank"
    /\ last.processed.intent.sortBy \in {"latest", "price_asc", "rating"}
    /\ \E i, j \in 1..Len(last.ranked) :
           i < j /\ RankedScore(i) - RankedScore(j) >= NearTie

(***************************************************************************)
(* Properties of calculateRankingScore                                     *)
(***************************************************************************)
\* C21: for every product within the data model's ranges and every query,
\* relevance, quality and popularity lie in [0, 1], finalScore lies in
\* [0, 1], and no divisor used in scoring is zero
ScoresWithinUnit ==
    last.op = "score" =>
        /\ {last.relevance, last.quality, last.popularity, last.finalScore}
              \subseteq 0..ScoreScale
        /\ 0 \notin last.divisors

\* a score that the clamp of calculateRankingScore brought down to 1, for a
\* product under the query's price ceiling
ClampedToUnit ==
    /\ last.op = "score"
    /\ last.processed.intent.maxPrice \in 1..(Infinity - 1)
    /\ last.product.price <= last.processed.intent.maxPrice
    /\ last.finalScore = ScoreScale
    /\ last.quality = ScoreScale

====
